---- MODULE Spec2Model ----
(***************************************************************************)
(* Monty Hall Monte Carlo notebook (discussion-exercise-2018-09-24.ipynb). *)
(*                                                                         *)
(* The notebook is a linear sequence of code cells:                        *)
(*   cell 2  draws the two random columns (car_under, picked),             *)
(*   cell 3  evaluates the stay strategy,                                  *)
(*   cell 4  applies change_mind to every row and evaluates the switch     *)
(*           strategy.                                                     *)
(* Each cell is one action.  A cell that raises leaves its result variable *)
(* unbound; this is recorded in the status field of the result.  Cell 4    *)
(* only reads df_car and df_picked, so it can be run after cell 3 whether  *)
(* or not cell 3 raised.                                                   *)
(*                                                                         *)
(* A float result k / n is kept as the unreduced pair (num, den).          *)
(***************************************************************************)
EXTENDS Integers, Sequences, FiniteSets

\* Largest trial count explored (num_trials is 10000 in the reference run).
MaxTrials == 3

\* np.random.randint(3, ...): doors are 0 .. NumDoors-1
NumDoors == 3

Doors == 0 .. (NumDoors - 1)

VARIABLES
    pc,                       \* next cell to run
    num_trials,               \* the trial count N
    df_car,                   \* column car_under
    df_picked,                \* column picked
    approximate_P_staying,    \* result of cell 3
    calls,                    \* one record per change_mind call made by apply
    df_changed_mind,          \* the Series returned by apply
    approximate_P_switching   \* result of cell 4

vars == << pc, num_trials, df_car, df_picked, approximate_P_staying,
           calls, df_changed_mind, approximate_P_switching >>

----------------------------------------------------------------------------
(* Python / pandas primitives, as the notebook uses them *)

Unset == [status |-> "unset", num |-> 0, den |-> 0]

Raised(err) == [status |-> err, num |-> 0, den |-> 0]

\* index of the first occurrence of x in list, 0 when absent
RECURSIVE IndexFrom(_, _, _)
IndexFrom(list, x, i) ==
    IF i > Len(list) THEN 0
    ELSE IF list[i] = x THEN i
    ELSE IndexFrom(list, x, i + 1)

\* list.pop(x): deletes by position instead of by value
RemoveByPosition(list, x) ==
    IF x + 1 > Len(list)
    THEN [status |-> "IndexError", list |-> list, removed |-> -1]
    ELSE [status  |-> "ok",
          list    |-> SubSeq(list, 1, x) \o SubSeq(list, x + 2, Len(list)),
          removed |-> list[x + 1]]

\* list.remove(x): deletes the first occurrence of x, ValueError when absent
\* (removed = -1 when nothing was deleted)
Remove(list, x) ==
    LET i == IndexFrom(list, x, 1)
    IN  IF i = 0
        THEN [status |-> "ValueError", list |-> list, removed |-> -1]
        ELSE [status  |-> "ok",
              list    |-> SubSeq(list, 1, i - 1) \o SubSeq(list, i + 1, Len(list)),
              removed |-> list[i]]

\* the conditional with its branches exchanged
RevealedSwapped(options, car_under) ==
    IF options[1] = car_under THEN options[1] ELSE options[2]

\* always reveals the first remaining door
RevealedFirst(options, car_under) == options[1]

\* tests the second remaining door first: keeps the car, other tie-break
RevealedTestsSecond(options, car_under) ==
    IF options[2] = car_under THEN options[1] ELSE options[2]

\* options[1] if options[0] == car_under else options[0]   (0-based in Python)
Revealed(options, car_under) ==
    IF options[1] = car_under THEN options[2] ELSE options[1]

\* change_mind without the first options.remove(picked)
ChangeMindKeepsPicked(picked, car_under) ==
    LET options == << 0, 1, 2 >>
        r2      == Remove(options, Revealed(options, car_under))
    IN  [status   |-> r2.status,
         picked   |-> picked,
         car      |-> car_under,
         removed1 |-> -1,
         removed2 |-> r2.removed,
         options  |-> r2.list,
         ret      |-> r2.list[1]]

\* change_mind(row): the record keeps what each options.remove call deleted,
\* what was left in options and what was returned (-1 where the call raised
\* before getting there)
change_mind(picked, car_under) ==
    LET options == << 0, 1, 2 >>
        r1      == Remove(options, picked)
    IN  IF r1.status # "ok"
        THEN [status |-> r1.status, picked |-> picked, car |-> car_under,
              removed1 |-> -1, removed2 |-> -1,
              options |-> r1.list, ret |-> -1]
        ELSE
        LET r2 == Remove(r1.list, Revealed(r1.list, car_under))
        IN  [status   |-> r2.status,
             picked   |-> picked,
             car      |-> car_under,
             removed1 |-> r1.removed,
             removed2 |-> r2.removed,
             options  |-> r2.list,
             ret      |-> IF r2.status = "ok" THEN r2.list[1] ELSE -1]

\* a == b on two columns: elementwise equality
ElementwiseEq(a, b) == [i \in 1 .. Len(a) |-> a[i] = b[i]]

\* number of occurrences of v in s
Occurrences(s, v) == Cardinality({i \in 1 .. Len(s) : s[i] = v})

\* k // n
FloorDivide(k, n) ==
    IF n = 0 THEN Raised("ZeroDivisionError")
    ELSE [status |-> "ok", num |-> k \div n, den |-> 1]

\* k / n on a numpy integer: true division; n = 0 gives nan or inf
Divide(k, n) ==
    IF n = 0 THEN Raised(IF k = 0 THEN "nan" ELSE "inf")
    ELSE [status |-> "ok", num |-> k, den |-> n]

\* s.value_counts()[True] / num_trials : value_counts() has one entry per
\* value that occurs in s, so the lookup of True raises KeyError when no
\* element of s is True (in particular when s is empty)
ProbabilityOfTrue(s, n) ==
    IF Occurrences(s, TRUE) = 0
    THEN Raised("KeyError")
    ELSE Divide(Occurrences(s, TRUE), n)

----------------------------------------------------------------------------
Init ==
    /\ pc = "generate"
    /\ num_trials \in -1 .. MaxTrials
    /\ df_car = << >>
    /\ df_picked = << >>
    /\ approximate_P_staying = Unset
    /\ calls = << >>
    /\ df_changed_mind = << >>
    /\ approximate_P_switching = Unset

\* cell 2 with a negative size: np.random.randint raises ValueError
GenerateRejected ==
    /\ pc = "generate"
    /\ num_trials < 0
    /\ pc' = "rejected"
    /\ UNCHANGED << num_trials, df_car, df_picked, approximate_P_staying,
                    calls, df_changed_mind, approximate_P_switching >>

\* cell 2: two independent columns of num_trials doors
Generate ==
    /\ pc = "generate"
    /\ num_trials >= 0
    /\ \E car \in [1 .. num_trials -> Doors], picked \in [1 .. num_trials -> Doors] :
          /\ df_car' = car
          /\ df_picked' = picked
    /\ pc' = "staying"
    /\ UNCHANGED << num_trials, approximate_P_staying,
                    calls, df_changed_mind, approximate_P_switching >>

\* cell 3
Staying ==
    /\ pc = "staying"
    /\ approximate_P_staying' =
          ProbabilityOfTrue(ElementwiseEq(df_car, df_picked), num_trials)
    /\ pc' = "switching"
    /\ UNCHANGED << num_trials, df_car, df_picked,
                    calls, df_changed_mind, approximate_P_switching >>

\* cell 4 on at least one row
Switching ==
    /\ pc = "switching"
    /\ num_trials > 0
    /\ LET trace == [i \in 1 .. num_trials |-> change_mind(df_picked[i], df_car[i])]
           failed == {i \in 1 .. num_trials : trace[i].status # "ok"}
           first  == CHOOSE i \in failed : \A j \in failed : i <= j
       IN  IF failed # {}
           THEN /\ calls' = SubSeq(trace, 1, first)
                /\ df_changed_mind' = << >>
                /\ approximate_P_switching' = Raised(trace[first].status)
           ELSE /\ calls' = trace
                /\ df_changed_mind' = [i \in 1 .. num_trials |-> trace[i].ret]
                /\ approximate_P_switching' =
                      ProbabilityOfTrue(ElementwiseEq(df_car, df_changed_mind'),
                                        num_trials)
    /\ pc' = "done"
    /\ UNCHANGED << num_trials, df_car, df_picked, approximate_P_staying >>

\* cell 4 on an empty frame: apply calls change_mind on no row and does not
\* return a column of doors; the comparison and lookup that follow raise
\* (which error depends on the pandas version)
SwitchingEmpty ==
    /\ pc = "switching"
    /\ num_trials = 0
    /\ \E err \in {"KeyError", "AttributeError"} :
          approximate_P_switching' = Raised(err)
    /\ pc' = "done"
    /\ UNCHANGED << num_trials, df_car, df_picked, approximate_P_staying,
                    calls, df_changed_mind >>

Next ==
    \/ GenerateRejected
    \/ Generate
    \/ Staying
    \/ Switching
    \/ SwitchingEmpty

Spec == Init /\ [][Next]_vars

----------------------------------------------------------------------------
(* Properties *)

\* the rows on which apply has called change_mind
Rows == 1 .. Len(calls)

\* the three doors, and the two doors other than d
Others(d) == Doors \ {d}

Lowest(S) == CHOOSE d \in S : \A e \in S : d <= e

Highest(S) == CHOOSE d \in S : \A e \in S : d >= e

\* C1: change_mind returns prize_door whenever prize_door is one of the two
\* doors left after removing initial_pick, and a door other than prize_door
\* when initial_pick = prize_door; so the switched pick equals the prize
\* exactly in the trials where initial_pick # prize_door.
C1_SwitchWinsIffPickDiffers ==
    \A i \in Rows :
        /\ calls[i].picked = df_picked[i]
        /\ calls[i].car = df_car[i]
        /\ (df_car[i] \in Others(df_picked[i]) => calls[i].ret = df_car[i])
        /\ (df_picked[i] = df_car[i] => calls[i].ret # df_car[i])
        /\ (pc = "done" /\ approximate_P_switching.status \in {"ok", "KeyError"}
               => ((df_changed_mind[i] = df_car[i]) <=> (df_picked[i] # df_car[i])))

C1_Witness ==
    /\ pc = "done"
    /\ \E i \in Rows : df_picked[i] # df_car[i] /\ df_changed_mind[i] = df_car[i]
    /\ \E i \in Rows : df_picked[i] = df_car[i] /\ df_changed_mind[i] # df_car[i]

\* C2: with one trial, both the stay and the switch evaluation complete and
\* each yields exactly 0.0 or exactly 1.0.
C2_SingleTrialYieldsZeroOrOne ==
    (pc = "done" /\ num_trials = 1) =>
        /\ approximate_P_staying.status = "ok"
        /\ approximate_P_staying.num \in {0, approximate_P_staying.den}
        /\ approximate_P_switching.status = "ok"
        /\ approximate_P_switching.num \in {0, approximate_P_switching.den}

\* C3: for every N >= 1 and all trial data, the stay evaluator produces
\* (number of positions where prize = pick) / N and the switch evaluator
\* produces (number of positions where switched_pick = prize) / N, also when
\* that number is 0 or N.
C3_EvaluatorsProduceCountOverN ==
    (pc = "done" /\ num_trials >= 1) =>
        /\ approximate_P_staying =
              [status |-> "ok",
               num    |-> Cardinality({i \in 1 .. num_trials : df_car[i] = df_picked[i]}),
               den    |-> num_trials]
        /\ approximate_P_switching =
              [status |-> "ok",
               num    |-> Cardinality({i \in 1 .. num_trials : calls[i].ret = df_car[i]}),
               den    |-> num_trials]

\* C4: in every trial the switched pick, the initial pick and the door
\* eliminated by the second options.remove call are pairwise distinct and
\* together are exactly {0,1,2}.
C4_DoorsPartition ==
    \A i \in Rows :
        /\ calls[i].ret # calls[i].picked
        /\ calls[i].ret # calls[i].removed2
        /\ calls[i].picked # calls[i].removed2
        /\ {calls[i].ret, calls[i].picked, calls[i].removed2} = {0, 1, 2}

C4_Witness ==
    /\ pc = "done"
    /\ Len(calls) = MaxTrials
    /\ \E i \in Rows : calls[i].picked = calls[i].car
    /\ \E i \in Rows : calls[i].picked # calls[i].car

\* C5: for N=3, prize=[0,1,2], pick=[0,0,0] the stay evaluation counts one
\* match (the first trial only) and gives 1/3, every switched pick is
\* nonzero, and the switch evaluation counts two matches and gives 2/3.
C5_ConcreteScenario ==
    (pc = "done" /\ df_car = << 0, 1, 2 >> /\ df_picked = << 0, 0, 0 >>) =>
        /\ approximate_P_staying = [status |-> "ok", num |-> 1, den |-> 3]
        /\ {i \in 1 .. 3 : df_car[i] = df_picked[i]} = {1}
        /\ Len(df_changed_mind) = 3
        /\ \A i \in 1 .. 3 : df_changed_mind[i] # 0
        /\ approximate_P_switching = [status |-> "ok", num |-> 2, den |-> 3]

C5_Witness ==
    /\ pc = "done"
    /\ num_trials = 3
    /\ df_car = << 0, 1, 2 >>
    /\ df_picked = << 0, 0, 0 >>

\* C6: with N <= 0 the run is either rejected as an invalid argument or its
\* probabilities are undefined (NaN or a signalled division by zero); it
\* reports no ordinary number and fails in no other way.
C6_DegenerateTrialCount ==
    num_trials <= 0 =>
        /\ approximate_P_staying.status \in
              {"unset", "nan", "inf", "ZeroDivisionError"}
        /\ approximate_P_switching.status \in
              {"unset", "nan", "inf", "ZeroDivisionError"}

\* C7: change_mind is total on {0,1,2} x {0,1,2}: both options.remove calls
\* find the element they remove, exactly one door is left in options, and
\* the returned value is a door.
C7_ChangeMindTotal ==
    \A i \in Rows :
        /\ calls[i].status = "ok"
        /\ calls[i].removed1 = calls[i].picked
        /\ calls[i].removed2 \in Others(calls[i].picked)
        /\ Len(calls[i].options) = 1
        /\ calls[i].ret = calls[i].options[1]
        /\ calls[i].ret \in Doors

C7_Witness ==
    /\ pc = "done"
    /\ Len(calls) = MaxTrials
    /\ \A i \in Rows : calls[i].status = "ok" /\ Len(calls[i].options) = 1
    /\ \E i \in Rows : calls[i].removed2 = 2

\* C8: the door eliminated by the second options.remove call (the door the
\* host reveals) is never prize_door and never initial_pick.
C8_RevealedIsGoatNotPick ==
    \A i \in Rows :
        /\ calls[i].removed2 # df_car[i]
        /\ calls[i].removed2 # df_picked[i]

C8_Witness ==
    /\ pc = "done"
    /\ \E i \in Rows : df_car[i] = Lowest(Others(df_picked[i]))
    /\ \E i \in Rows : df_car[i] = Highest(Others(df_picked[i]))

\* C9: when initial_pick = prize_door, change_mind eliminates the lowest of
\* the two non-picked doors and returns the higher one (pick 0 -> 2,
\* pick 1 -> 2, pick 2 -> 1); equal input pairs give equal outputs.
C9_TieBreakLowestIndex ==
    /\ \A i \in Rows :
          df_picked[i] = df_car[i] =>
              /\ calls[i].removed2 = Lowest(Others(df_picked[i]))
              /\ calls[i].ret = Highest(Others(df_picked[i]))
              /\ calls[i].ret = << 2, 2, 1 >>[df_picked[i] + 1]
    /\ \A i, j \in Rows :
          (df_picked[i] = df_picked[j] /\ df_car[i] = df_car[j])
              => calls[i].ret = calls[j].ret

C9_Witness ==
    /\ pc = "done"
    /\ df_picked = << 0, 1, 2 >>
    /\ df_car = << 0, 1, 2 >>
    /\ df_changed_mind = << 2, 2, 1 >>

\* C10: for every N >= 1 and all trial data the stay match count plus the
\* switch match count is N, so the two reported probabilities sum to
\* exactly 1.
C10_ProbabilitiesSumToOne ==
    (pc = "done" /\ num_trials >= 1) =>
        /\ approximate_P_staying.status = "ok"
        /\ approximate_P_switching.status = "ok"
        /\ approximate_P_staying.den = num_trials
        /\ approximate_P_switching.den = num_trials
        /\ approximate_P_staying.num + approximate_P_switching.num = num_trials

====
